---- MODULE Spec2Model ----
(***************************************************************************)
(* Model of Module4/Exercise 2/FindFaceAndColor.ipynb: the supervisor     *)
(* cell (acquisition loop, stop event, joins) and the three               *)
(* ImageProcessor threads that drain the shared queue.Queue under one     *)
(* threading.Lock.                                                        *)
(*                                                                         *)
(* A frame is identified by its capture number: the n-th array filled by  *)
(* camera.capture_sequence is frame n.  0 stands for "no frame" (the      *)
(* np.empty / np.zeros buffers of ImageProcessor.__init__).               *)
(*                                                                         *)
(* self.incoming and self.processed are read only inside the iteration    *)
(* that assigned them (dowork(self.incoming) right after get_nowait,      *)
(* showarray(self.processed) right after dowork; the queue.Empty path     *)
(* skips showarray).  The model therefore forgets both at the end of the  *)
(* iteration instead of carrying the stale arrays along.                  *)
(***************************************************************************)
EXTENDS Integers, Sequences, FiniteSets, TLC

\* frames = queue.Queue(maxsize = 10)
K == 10

\* Number of loop iterations the time_to_run window is allowed to admit.
MaxFrames == 11

\* The same, for the specification with fairness.
MaxLiveFrames == 4

\* imageThreadRed, imageThreadGreen, imageThreadBlue, in start/join order.
WorkerOrder == <<"Red", "Green", "Blue">>

Workers == {WorkerOrder[i] : i \in 1..Len(WorkerOrder)}

VARIABLES
    pcMain,            \* position of the supervisor cell
    joined,            \* number of join() calls that have returned
    freshest_frame,    \* capture number of the frame last captured
    frames,            \* the queue's contents, oldest first
    unfinished_tasks,  \* queue.Queue's unfinished task counter
    lock,              \* owner of the threading.Lock, or "free"
    thread_stopper,    \* the threading.Event
    pc,                \* position of each ImageProcessor thread
    incoming,          \* self.incoming of each worker
    processed,         \* self.processed of each worker (frame it was made from)
    pushed,            \* history: frames put on the queue, in order
    popped,            \* history: frames obtained by workers' get_nowait
    shown,             \* history: how often each frame reached showarray
    late_gets,         \* history: frames each worker obtained after the
                       \* event was set
    det_pc,            \* position inside the dowork call under study
    det_worker,        \* the ImageProcessor whose dowork is called
    array,             \* dowork's argument, the full-resolution frame
    kmeans,            \* the fitted KMeans: labels_ and cluster_centers_
    box,               \* min/max_vertical, min/max_horizontal
    position,          \* dowork's first result (center_position or None)
    output             \* dowork's second result

\* the variables of one dowork call
detect == <<det_pc, det_worker, array, kmeans, box, position, output>>

vars == <<pcMain, joined, freshest_frame, frames, unfinished_tasks, lock,
          thread_stopper, pc, incoming, processed, pushed, popped, shown,
          late_gets, detect>>

\* Python's None, kept apart from every centre and coordinate, which are
\* not negative
None == -1

\* no frame, no fit and no box: the values these variables have outside a
\* dowork call
\* A frame is its content as captured plus the pixels painted over it since
\* and the colour they were painted with.
NoFrame == [content |-> [kind |-> "none", rgb |-> <<0, 0, 0>>],
            painted |-> {}, colour |-> <<0, 0, 0>>]

NoFit == [labels_ |-> <<>>, cluster_centers_ |-> <<>>]

NoBox == [top |-> None, bottom |-> None, left |-> None, right |-> None]

----------------------------------------------------------------------------
\* queue.Queue operations, on the sequence that backs the queue.

\* a full test that is off by one
full_offByOne(q) == Len(q) > K

\* Queue.full(): 0 < maxsize <= qsize
full(q) == Len(q) >= K

\* Queue.empty()
empty(q) == Len(q) = 0

\* the item Queue.get / get_nowait returns (popleft of the deque)
getItem(q) == Head(q)

\* a get that returns the oldest item without removing it
getRest_peek(q) == q

\* the deque after Queue.get / get_nowait
getRest(q) == Tail(q)

\* a put at the wrong end of the deque
put_front(q, item) == <<item>> \o q

\* the deque after Queue.put(item)
put(q, item) == Append(q, item)

\* Queue.put: unfinished_tasks += 1
task_added(u) == u + 1

\* a task_done that counts twice
task_done_twice(u) == u - 2

\* Queue.task_done: unfinished_tasks - 1 (ValueError when that is negative)
task_done(u) == u - 1

\* a loop that never looks at the event
keepRunning_always(stop) == TRUE

\* the loop condition: not thread_stopper.is_set()
keepRunning(stop) == ~stop

\* a join that does not wait
terminated_always(p) == TRUE

\* Thread.join() returns once the thread's run() has ended, normally or by
\* an uncaught exception.
terminated(p) == p \in {"stopped", "crashed"}

----------------------------------------------------------------------------
Init ==
    /\ pcMain = "start"
    /\ joined = 0
    /\ freshest_frame = 0
    /\ frames = <<>>
    /\ unfinished_tasks = 0
    /\ lock = "free"
    /\ thread_stopper = FALSE
    /\ pc = [w \in Workers |-> "idle"]
    /\ incoming = [w \in Workers |-> 0]
    /\ processed = [w \in Workers |-> 0]
    /\ pushed = <<>>
    /\ popped = <<>>
    /\ shown = [f \in 1..MaxFrames |-> 0]
    /\ late_gets = [w \in Workers |-> 0]
    /\ det_pc = "off"
    /\ det_worker = WorkerOrder[1]
    /\ array = NoFrame
    /\ kmeans = NoFit
    /\ box = NoBox
    /\ position = None
    /\ output = NoFrame

----------------------------------------------------------------------------
\* Supervisor cell

\* imageThreadRed.start(); imageThreadGreen.start(); imageThreadBlue.start()
Start(w) ==
    /\ pcMain = "start"
    /\ pc[w] = "idle"
    /\ \A i \in 1..Len(WorkerOrder) :
          WorkerOrder[i] = w => \A j \in 1..(i-1) : pc[WorkerOrder[j]] # "idle"
    /\ pc' = [pc EXCEPT ![w] = "check"]
    /\ pcMain' = IF w = WorkerOrder[Len(WorkerOrder)] THEN "loop" ELSE "start"
    /\ UNCHANGED <<joined, freshest_frame, frames, unfinished_tasks, lock,
                   thread_stopper, incoming, processed, pushed, popped, shown>>
    /\ UNCHANGED late_gets
    /\ UNCHANGED detect

\* while time.time() - start < time_to_run: capture_sequence fills a new
\* array; detectFacesAndEyes draws on it.
CaptureUpTo(limit) ==
    /\ pcMain = "loop"
    /\ freshest_frame < limit
    /\ freshest_frame' = freshest_frame + 1
    /\ pcMain' = "lock"
    /\ UNCHANGED <<joined, frames, unfinished_tasks, lock, thread_stopper,
                   pc, incoming, processed, pushed, popped, shown>>
    /\ UNCHANGED late_gets
    /\ UNCHANGED detect

Capture == CaptureUpTo(MaxFrames)

\* camera.capture_sequence raises: the exception leaves the with block and
\* the cell; nothing after the loop is executed.
CaptureFail ==
    /\ pcMain = "loop"
    /\ pcMain' = "failed"
    /\ UNCHANGED <<joined, freshest_frame, frames, unfinished_tasks, lock,
                   thread_stopper, pc, incoming, processed, pushed, popped,
                   shown>>
    /\ UNCHANGED late_gets
    /\ UNCHANGED detect

\* the while condition is false: print("picamera session ended")
TimeUp ==
    /\ pcMain = "loop"
    /\ pcMain' = "set"
    /\ UNCHANGED <<joined, freshest_frame, frames, unfinished_tasks, lock,
                   thread_stopper, pc, incoming, processed, pushed, popped,
                   shown>>
    /\ UNCHANGED late_gets
    /\ UNCHANGED detect

\* an acquire that does not wait for the lock
MainAcquire_noWait ==
    /\ pcMain = "lock"
    /\ lock' = "main"
    /\ pcMain' = "push"
    /\ UNCHANGED <<joined, freshest_frame, frames, unfinished_tasks,
                   thread_stopper, pc, incoming, processed, pushed, popped,
                   shown>>
    /\ UNCHANGED late_gets
    /\ UNCHANGED detect

\* lock.acquire()
MainAcquire ==
    /\ pcMain = "lock"
    /\ lock = "free"
    /\ lock' = "main"
    /\ pcMain' = "push"
    /\ UNCHANGED <<joined, freshest_frame, frames, unfinished_tasks,
                   thread_stopper, pc, incoming, processed, pushed, popped,
                   shown>>
    /\ UNCHANGED late_gets
    /\ UNCHANGED detect

\* if frames.full(): ... else: ...
TestFull ==
    /\ pcMain = "push"
    /\ pcMain' = IF full(frames) THEN "get" ELSE "put"
    /\ UNCHANGED <<joined, freshest_frame, frames, unfinished_tasks, lock,
                   thread_stopper, pc, incoming, processed, pushed, popped,
                   shown>>
    /\ UNCHANGED late_gets
    /\ UNCHANGED detect

\* frames.get(): a blocking get, which waits while the queue is empty
MainGet ==
    /\ pcMain = "get"
    /\ ~empty(frames)
    /\ frames' = getRest(frames)
    /\ pcMain' = "task_done"
    /\ UNCHANGED <<joined, freshest_frame, unfinished_tasks, lock,
                   thread_stopper, pc, incoming, processed, pushed, popped,
                   shown>>
    /\ UNCHANGED late_gets
    /\ UNCHANGED detect

\* frames.task_done()
MainTaskDone ==
    /\ pcMain = "task_done"
    /\ unfinished_tasks' = task_done(unfinished_tasks)
    /\ pcMain' = "unlock"
    /\ UNCHANGED <<joined, freshest_frame, frames, lock, thread_stopper, pc,
                   incoming, processed, pushed, popped, shown>>
    /\ UNCHANGED late_gets
    /\ UNCHANGED detect

\* frames.put(freshest_frame): a blocking put, which waits while the queue
\* is full
MainPut ==
    /\ pcMain = "put"
    /\ ~full(frames)
    /\ frames' = put(frames, freshest_frame)
    /\ unfinished_tasks' = task_added(unfinished_tasks)
    /\ pushed' = Append(pushed, freshest_frame)
    /\ pcMain' = "unlock"
    /\ UNCHANGED <<joined, freshest_frame, lock, thread_stopper, pc, incoming,
                   processed, popped, shown>>
    /\ UNCHANGED late_gets
    /\ UNCHANGED detect

\* lock.release()
MainRelease ==
    /\ pcMain = "unlock"
    /\ lock = "main"
    /\ lock' = "free"
    /\ pcMain' = "loop"
    /\ UNCHANGED <<joined, freshest_frame, frames, unfinished_tasks,
                   thread_stopper, pc, incoming, processed, pushed, popped,
                   shown>>
    /\ UNCHANGED late_gets
    /\ UNCHANGED detect

\* a set() that sits inside the acquisition loop
SetStop_inLoop ==
    /\ pcMain = "loop"
    /\ thread_stopper' = TRUE
    /\ UNCHANGED <<pcMain, joined, freshest_frame, frames, unfinished_tasks,
                   lock, pc, incoming, processed, pushed, popped, shown>>
    /\ UNCHANGED late_gets
    /\ UNCHANGED detect

\* thread_stopper.set()
SetStop ==
    /\ pcMain = "set"
    /\ thread_stopper' = TRUE
    /\ pcMain' = "join"
    /\ UNCHANGED <<joined, freshest_frame, frames, unfinished_tasks, lock,
                   pc, incoming, processed, pushed, popped, shown>>
    /\ UNCHANGED late_gets
    /\ UNCHANGED detect

\* imageThreadRed.join(); imageThreadGreen.join(); imageThreadBlue.join()
Join ==
    /\ pcMain = "join"
    /\ terminated(pc[WorkerOrder[joined + 1]])
    /\ joined' = joined + 1
    /\ pcMain' = IF joined + 1 = Len(WorkerOrder) THEN "done" ELSE "join"
    /\ UNCHANGED <<freshest_frame, frames, unfinished_tasks, lock,
                   thread_stopper, pc, incoming, processed, pushed, popped,
                   shown>>
    /\ UNCHANGED late_gets
    /\ UNCHANGED detect

----------------------------------------------------------------------------
\* ImageProcessor.run

\* while not thread_stopper.is_set():
Check(w) ==
    /\ pc[w] = "check"
    /\ pc' = [pc EXCEPT ![w] = IF keepRunning(thread_stopper)
                                 THEN "acquire" ELSE "stopped"]
    /\ UNCHANGED <<pcMain, joined, freshest_frame, frames, unfinished_tasks,
                   lock, thread_stopper, incoming, processed, pushed, popped,
                   shown>>
    /\ UNCHANGED late_gets
    /\ UNCHANGED detect

\* an acquire that does not wait for the lock
Acquire_noWait(w) ==
    /\ pc[w] = "acquire"
    /\ lock' = w
    /\ pc' = [pc EXCEPT ![w] = "get"]
    /\ UNCHANGED <<pcMain, joined, freshest_frame, frames, unfinished_tasks,
                   thread_stopper, incoming, processed, pushed, popped, shown>>
    /\ UNCHANGED late_gets
    /\ UNCHANGED detect

\* self.lock.acquire()
Acquire(w) ==
    /\ pc[w] = "acquire"
    /\ lock = "free"
    /\ lock' = w
    /\ pc' = [pc EXCEPT ![w] = "get"]
    /\ UNCHANGED <<pcMain, joined, freshest_frame, frames, unfinished_tasks,
                   thread_stopper, incoming, processed, pushed, popped, shown>>
    /\ UNCHANGED late_gets
    /\ UNCHANGED detect

\* self.incoming = self.frames.get_nowait(), queue not empty
Get(w) ==
    /\ pc[w] = "get"
    /\ ~empty(frames)
    /\ incoming' = [incoming EXCEPT ![w] = getItem(frames)]
    /\ frames' = getRest(frames)
    /\ popped' = Append(popped, getItem(frames))
    /\ pc' = [pc EXCEPT ![w] = "dowork"]
    /\ late_gets' = [late_gets EXCEPT ![w] = IF thread_stopper THEN @ + 1 ELSE @]
    /\ UNCHANGED <<pcMain, joined, freshest_frame, unfinished_tasks, lock,
                   thread_stopper, processed, pushed, shown>>
    /\ UNCHANGED detect

\* an empty queue answered by trying again without looking at the event
GetEmpty_retry(w) ==
    /\ pc[w] = "get"
    /\ empty(frames)
    /\ lock' = "free"
    /\ pc' = [pc EXCEPT ![w] = "acquire"]
    /\ UNCHANGED <<pcMain, joined, freshest_frame, frames, unfinished_tasks,
                   thread_stopper, incoming, processed, pushed, popped, shown>>
    /\ UNCHANGED late_gets
    /\ UNCHANGED detect

\* an except clause that falls through to showarray (pass for continue)
GetEmpty_show(w) ==
    /\ pc[w] = "get"
    /\ empty(frames)
    /\ lock' = "free"
    /\ pc' = [pc EXCEPT ![w] = "show"]
    /\ UNCHANGED <<pcMain, joined, freshest_frame, frames, unfinished_tasks,
                   thread_stopper, incoming, processed, pushed, popped, shown>>
    /\ UNCHANGED late_gets
    /\ UNCHANGED detect

\* get_nowait raises queue.Empty: the finally clause releases the lock and
\* the except clause's continue goes back to the while condition.
GetEmpty(w) ==
    /\ pc[w] = "get"
    /\ empty(frames)
    /\ lock' = "free"
    /\ pc' = [pc EXCEPT ![w] = "check"]
    /\ UNCHANGED <<pcMain, joined, freshest_frame, frames, unfinished_tasks,
                   thread_stopper, incoming, processed, pushed, popped, shown>>
    /\ UNCHANGED late_gets
    /\ UNCHANGED detect

\* self.position, self.processed = self.dowork(self.incoming)
Dowork(w) ==
    /\ pc[w] = "dowork"
    /\ processed' = [processed EXCEPT ![w] = incoming[w]]
    /\ pc' = [pc EXCEPT ![w] = "task_done"]
    /\ UNCHANGED <<pcMain, joined, freshest_frame, frames, unfinished_tasks,
                   lock, thread_stopper, incoming, pushed, popped, shown>>
    /\ UNCHANGED late_gets
    /\ UNCHANGED detect

\* an exception path without the finally clause
DoworkRaise_keepLock(w) ==
    /\ pc[w] = "dowork"
    /\ incoming' = [incoming EXCEPT ![w] = 0]
    /\ pc' = [pc EXCEPT ![w] = "crashed"]
    /\ UNCHANGED <<pcMain, joined, freshest_frame, frames, unfinished_tasks,
                   lock, thread_stopper, processed, pushed, popped, shown>>
    /\ UNCHANGED late_gets
    /\ UNCHANGED detect

\* dowork raises (anything but queue.Empty): the finally clause releases the
\* lock, no except clause matches, and the exception ends run() and with it
\* the thread.
DoworkRaise(w) ==
    /\ pc[w] = "dowork"
    /\ lock' = "free"
    /\ incoming' = [incoming EXCEPT ![w] = 0]
    /\ pc' = [pc EXCEPT ![w] = "crashed"]
    /\ UNCHANGED <<pcMain, joined, freshest_frame, frames, unfinished_tasks,
                   thread_stopper, processed, pushed, popped, shown>>
    /\ UNCHANGED late_gets
    /\ UNCHANGED detect

\* self.frames.task_done()
TaskDone(w) ==
    /\ pc[w] = "task_done"
    /\ unfinished_tasks' = task_done(unfinished_tasks)
    /\ pc' = [pc EXCEPT ![w] = "release"]
    /\ UNCHANGED <<pcMain, joined, freshest_frame, frames, lock,
                   thread_stopper, incoming, processed, pushed, popped, shown>>
    /\ UNCHANGED late_gets
    /\ UNCHANGED detect

\* finally: self.lock.release()
Release(w) ==
    /\ pc[w] = "release"
    /\ lock' = "free"
    /\ pc' = [pc EXCEPT ![w] = "show"]
    /\ UNCHANGED <<pcMain, joined, freshest_frame, frames, unfinished_tasks,
                   thread_stopper, incoming, processed, pushed, popped, shown>>
    /\ UNCHANGED late_gets
    /\ UNCHANGED detect

\* showarray(self.processed); IPython.display.clear_output(wait = True)
Show(w) ==
    /\ pc[w] = "show"
    /\ shown' = [shown EXCEPT ![processed[w]] = @ + 1]
    /\ incoming' = [incoming EXCEPT ![w] = 0]
    /\ processed' = [processed EXCEPT ![w] = 0]
    /\ pc' = [pc EXCEPT ![w] = "check"]
    /\ UNCHANGED <<pcMain, joined, freshest_frame, frames, unfinished_tasks,
                   lock, thread_stopper, pushed, popped>>
    /\ UNCHANGED late_gets
    /\ UNCHANGED detect

WorkerStep(w) ==
    \/ Check(w)
    \/ Acquire(w)
    \/ Get(w)
    \/ GetEmpty(w)
    \/ Dowork(w)
    \/ DoworkRaise(w)
    \/ TaskDone(w)
    \/ Release(w)
    \/ Show(w)

MainStep ==
    \/ \E w \in Workers : Start(w)
    \/ Capture
    \/ CaptureFail
    \/ TimeUp
    \/ MainAcquire
    \/ TestFull
    \/ MainGet
    \/ MainTaskDone
    \/ MainPut
    \/ MainRelease
    \/ SetStop
    \/ Join

Next ==
    \/ MainStep
    \/ \E w \in Workers : WorkerStep(w)

Spec == Init /\ [][Next]_vars

\* The same program admitting fewer frames, with every thread scheduled
\* fairly: a thread that can take a step eventually takes one.  dowork is
\* taken to return or raise.  With fewer than K frames the queue is never
\* full, so the full branch (frames.get(); frames.task_done()) has no steps
\* here.
LiveMainStep ==
    \/ \E w \in Workers : Start(w)
    \/ CaptureUpTo(MaxLiveFrames)
    \/ CaptureFail
    \/ TimeUp
    \/ MainAcquire
    \/ TestFull
    \/ MainPut
    \/ MainRelease
    \/ SetStop
    \/ Join

LiveNext ==
    \/ LiveMainStep
    \/ \E w \in Workers : WorkerStep(w)

LiveSpec ==
    /\ Init
    /\ [][LiveNext]_vars
    /\ \A w \in Workers : WF_vars(WorkerStep(w))

----------------------------------------------------------------------------
\* ImageProcessor.dowork, one call studied on its own

\* camera.resolution = (320, 240); np.empty((240, 320, 3))
FrameW == 320

FrameH == 240

\* resizeNPArray(array, 80, 60)
DownW == 80

DownH == 60

\* the literal 4800 = 60 * 80 of the threshold test
NPixels == 4800

\* KMeans(n_clusters = 6)
NClusters == 6

\* color_threshold = 0.07, in hundredths
ThresholdPercent == 7

\* row and column indices of the down-sized image, and its pixels
Rows == 0..(DownH - 1)

Cols == 0..(DownW - 1)

\* reshape((60 * 80, 5)): pixel (r, c) is entry r * 80 + c of the flat
\* arrays
Grid == 0..(NPixels - 1)

row(i) == i \div DownW

col(i) == i % DownW

at(r, c) == r * DownW + c

Labels == 0..(NClusters - 1)

\* np.array([255,0,0]), np.array([0,255,0]), np.array([0,0,255]): each
\* worker's target colour, which is also its border colour
target_color(w) ==
    CASE w = "Red" -> <<255, 0, 0>>
      [] w = "Green" -> <<0, 255, 0>>
      [] w = "Blue" -> <<0, 0, 255>>

border_color(w) == target_color(w)

\* Inputs.  A frame is either of one colour throughout, or a scene whose
\* pixels the model leaves open; of a scene only the fitted clustering is
\* drawn.
UniformFrame(rgb) ==
    [content |-> [kind |-> "uniform", rgb |-> rgb], painted |-> {},
     colour |-> <<0, 0, 0>>]

SceneFrame ==
    [content |-> [kind |-> "scene", rgb |-> <<0, 0, 0>>], painted |-> {},
     colour |-> <<0, 0, 0>>]

\* the frames drawn for worker w: one of its own target colour, and a scene
InputFrames(w) == {UniformFrame(target_color(w)), SceneFrame}

\* Largest number of pixels a drawn cluster has beyond its full rows.
MaxExtra == 2

\* The clusters drawn for a scene: `height` full rows of `width` pixels from
\* (top, left), and `extra` more pixels in the row below.
ShapeTops == {0, 52}

ShapeLefts == {0, 32}

ShapeHeights == {0, 7, 59, 60}

ShapeWidths == {1, 48, 80}

Shapes ==
    {s \in [top : ShapeTops, left : ShapeLefts, height : ShapeHeights,
            width : ShapeWidths, extra : 0..MaxExtra] :
        /\ s.left + s.width <= DownW
        /\ s.extra < s.width \/ s.extra = 0
        /\ s.top + s.height + (IF s.extra > 0 THEN 1 ELSE 0) <= DownH
        /\ s.height * s.width < NPixels}

\* pixel p belongs to the shape s
InShape(s, p) ==
    \/ /\ s.top <= row(p) /\ row(p) < s.top + s.height
       /\ s.left <= col(p) /\ col(p) < s.left + s.width
    \/ /\ row(p) = s.top + s.height
       /\ s.left <= col(p) /\ col(p) < s.left + s.extra

\* the labels drawn for the cluster nearest to the target colour
SelLabels == {0, NClusters - 1}

\* the i-th label other than sel, i in 0..NClusters-2
OtherLabel(sel, i) == IF i < sel THEN i ELSE i + 1

\* A fit of a scene in which cluster `sel` is the shape s and has the centre
\* nearest to the worker's target colour; the other pixels are spread over
\* the other clusters, whose centres are greys.
SceneFit(s, sel, w) ==
    [labels_ |->
        [p \in Grid |->
            IF InShape(s, p) THEN sel
            ELSE OtherLabel(sel, (row(p) + col(p)) % (NClusters - 1))],
     cluster_centers_ |->
        [i \in Labels |->
            IF i = sel
              THEN [j \in 1..3 |-> IF target_color(w)[j] = 0 THEN 10 ELSE 245]
              ELSE [j \in 1..3 |-> 40 * i]]]

\* k-th of n nearly equal parts of 0..(len - 1)
PartLo(len, n, k) == (k * len) \div n

PartHi(len, n, k) == ((k + 1) * len) \div n - 1

\* The fits drawn for a frame of one colour: the grid cut into nr x nc
\* blocks, nr * nc = NClusters.  All pixels have the same colour, so the
\* clusters differ in position only.
BlockRows == {1, 2, 3, 6}

Block(nr, b) ==
    LET nc == NClusters \div nr
        br == b \div nc
        bc == b % nc
    IN  [r0 |-> PartLo(DownH, nr, br), r1 |-> PartHi(DownH, nr, br),
         c0 |-> PartLo(DownW, nc, bc), c1 |-> PartHi(DownW, nc, bc)]

\* the block that holds pixel p
BlockOf(nr, p) ==
    LET nc == NClusters \div nr
    IN  (((row(p) + 1) * nr - 1) \div DownH) * nc
        + ((col(p) + 1) * nc - 1) \div DownW

\* twice the squared distance in (row, col) of pixel p from the mean
\* position of a block (the colour coordinates agree)
PosDist(p, blk) ==
    (2 * row(p) - (blk.r0 + blk.r1)) * (2 * row(p) - (blk.r0 + blk.r1))
    + (2 * col(p) - (blk.c0 + blk.c1)) * (2 * col(p) - (blk.c0 + blk.c1))

\* Lloyd's iteration has stopped: every pixel is nearest to the mean of its
\* own cluster.
LloydStable(nr) ==
    \A p \in Grid : \A c \in Labels :
        PosDist(p, Block(nr, BlockOf(nr, p))) <= PosDist(p, Block(nr, c))

\* the fit with blocks nr x nc in which label i is block (i + rot) mod 6
UniformFit(nr, rot, rgb) ==
    [labels_ |->
        [p \in Grid |-> (BlockOf(nr, p) + NClusters - rot) % NClusters],
     cluster_centers_ |-> [i \in Labels |-> rgb]]

\* np.power(diff, 2).sum(axis = 1); the square root that follows does not
\* change which is smallest
closest(centers, target) ==
    [i \in Labels |->
        (centers[i][1] - target[1]) * (centers[i][1] - target[1])
        + (centers[i][2] - target[2]) * (centers[i][2] - target[2])
        + (centers[i][3] - target[3]) * (centers[i][3] - target[3])]

\* ndarray.argmin(): the first index of the smallest entry
argmin(a) ==
    CHOOSE i \in DOMAIN a :
        /\ \A j \in DOMAIN a : a[i] <= a[j]
        /\ \A j \in DOMAIN a : j < i => a[j] > a[i]

closest_label(km, target) == argmin(closest(km.cluster_centers_, target))

\* labels = kmeans.labels_.reshape((60, 80)); labels = labels == closest_label
labels(km, target) ==
    LET nearest == closest_label(km, target)
    IN  [p \in Grid |-> km.labels_[p] = nearest]

\* labels.sum(axis = 1) and labels.sum(axis = 0)
sum_labels_vertical(mask) ==
    [r \in Rows |-> Cardinality({c \in Cols : mask[at(r, c)]})]

sum_labels_horizontal(mask) ==
    [c \in Cols |-> Cardinality({r \in Rows : mask[at(r, c)]})]

\* ndarray.sum() of a vector indexed 0..n-1
RECURSIVE SumUpTo(_, _)
SumUpTo(a, n) == IF n < 0 THEN 0 ELSE a[n] + SumUpTo(a, n - 1)

sum(a) == SumUpTo(a, Cardinality(DOMAIN a) - 1)

\* a threshold test that lets the boundary through
over_threshold_inclusive(total) == total * 100 >= ThresholdPercent * NPixels

\* sum_labels_vertical.sum() > color_threshold * 4800.  The product is the
\* float 336.00000000000006; an integer exceeds it exactly when it exceeds
\* 336.
over_threshold(total) == total * 100 > ThresholdPercent * NPixels

\* np.nonzero(a)
nonzero(a) == {i \in DOMAIN a : a[i] # 0}

\* np.min and np.max of an index set
min(S) == CHOOSE x \in S : \A y \in S : x <= y

\* a max that takes the first index
max_first(S) == CHOOSE x \in S : \A y \in S : x <= y

max(S) == CHOOSE x \in S : \A y \in S : x >= y

\* a scale that is wrong for the height
upscale_by5(i) == i * 5

\* multiply by 4 to get to the original size
upscale(i) == i * 4

\* a[lo:hi+1] of an axis of length n: the indices lo..hi that exist
slice(lo, hi, n) == {i \in lo..hi : 0 <= i /\ i < n}

\* a rectangle that is filled instead of outlined
border_filled(t, b, l, r) ==
    {<<y, x>> : y \in slice(t, b, FrameH), x \in slice(l, r, FrameW)}

\* the pixels written by the four assignments output[...] = border_color
border(t, b, l, r) ==
    {<<y, l>> : y \in slice(t, b, FrameH)}
    \cup {<<y, r>> : y \in slice(t, b, FrameH)}
    \cup {<<t, x>> : x \in slice(l, r, FrameW)}
    \cup {<<b, x>> : x \in slice(l, r, FrameW)}

\* center_position = (min_vertical + max_vertical) / 2; both are multiples
\* of 4, so the quotient is a whole number
center(t, b) == (t + b) \div 2

\* A dowork call: the worker and its argument.
DetectInit ==
    /\ pcMain = "start"
    /\ joined = 0
    /\ freshest_frame = 0
    /\ frames = <<>>
    /\ unfinished_tasks = 0
    /\ lock = "free"
    /\ thread_stopper = FALSE
    /\ pc = [w \in Workers |-> "idle"]
    /\ incoming = [w \in Workers |-> 0]
    /\ processed = [w \in Workers |-> 0]
    /\ pushed = <<>>
    /\ popped = <<>>
    /\ shown = [f \in 1..MaxFrames |-> 0]
    /\ late_gets = [w \in Workers |-> 0]
    /\ det_pc = "fit"
    /\ det_worker \in Workers
    /\ array \in InputFrames(det_worker)
    /\ kmeans = NoFit
    /\ box = NoBox
    /\ position = None
    /\ output = NoFrame

\* output = array.copy(); array = resizeNPArray(array, 80, 60);
\* kmeans = KMeans(...).fit(reshaped): labels_ and the rgb part of
\* cluster_centers_.  The initialisation is random, so the fit is one of
\* several.
Fit ==
    /\ det_pc = "fit"
    /\ output' = array
    /\ \/ /\ array.content.kind = "uniform"
          /\ \E nr \in {n \in BlockRows : LloydStable(n)}, rot \in Labels :
                kmeans' = UniformFit(nr, rot, array.content.rgb)
       \/ /\ array.content.kind = "scene"
          /\ \E s \in Shapes, sel \in SelLabels :
                kmeans' = SceneFit(s, sel, det_worker)
    /\ det_pc' = "locate"
    /\ UNCHANGED <<det_worker, array, box, position>>
    /\ UNCHANGED <<pcMain, joined, freshest_frame, frames, unfinished_tasks,
                   lock, thread_stopper, pc, incoming, processed, pushed,
                   popped, shown, late_gets>>

\* the rest of dowork: nearest centre, mask, threshold, bounds, border,
\* centre
Locate ==
    /\ det_pc = "locate"
    /\ LET mask == labels(kmeans, target_color(det_worker))
           vertical == sum_labels_vertical(mask)
           horizontal == sum_labels_horizontal(mask)
       IN  IF ~ over_threshold(sum(vertical))
             THEN \* return (None, output)
                  /\ position' = None
                  /\ UNCHANGED <<box, output>>
                  /\ det_pc' = "done"
             ELSE LET non_zero_vertical == nonzero(vertical)
                      min_vertical == upscale(min(non_zero_vertical))
                      max_vertical == upscale(max(non_zero_vertical))
                      non_zero_horizontal == nonzero(horizontal)
                      min_horizontal == upscale(min(non_zero_horizontal))
                      max_horizontal == upscale(max(non_zero_horizontal))
                  IN  /\ box' = [top |-> min_vertical, bottom |-> max_vertical,
                                 left |-> min_horizontal,
                                 right |-> max_horizontal]
                      /\ IF max_vertical < FrameH /\ max_horizontal < FrameW
                           THEN /\ output' =
                                     [output EXCEPT
                                        !.painted = @ \cup
                                            border(min_vertical, max_vertical,
                                                   min_horizontal,
                                                   max_horizontal),
                                        !.colour = border_color(det_worker)]
                                /\ position' = center(min_vertical,
                                                      max_vertical)
                                /\ det_pc' = "done"
                           ELSE \* an integer index past the axis: IndexError
                                /\ UNCHANGED <<output, position>>
                                /\ det_pc' = "IndexError"
    /\ UNCHANGED <<det_worker, array, kmeans>>
    /\ UNCHANGED <<pcMain, joined, freshest_frame, frames, unfinished_tasks,
                   lock, thread_stopper, pc, incoming, processed, pushed,
                   popped, shown, late_gets>>

DetectNext ==
    \/ Fit
    \/ Locate

DetectSpec == DetectInit /\ [][DetectNext]_vars

----------------------------------------------------------------------------
\* Vocabulary of the properties

\* the supervisor's and a worker's positions between acquire and release
MainInside == {"push", "get", "task_done", "put", "unlock"}

WorkerInside == {"get", "dowork", "task_done", "release"}

\* the cluster whose centre is nearest to the worker's target colour, and the
\* pixels, rows and columns of the down-sized image that carry its label
Selected == closest_label(kmeans, target_color(det_worker))

Masked ==
    LET nearest == Selected
    IN  {p \in Grid : kmeans.labels_[p] = nearest}

MaskedRows == {row(p) : p \in Masked}

MaskedCols == {col(p) : p \in Masked}

\* dowork has returned, with a centre or with None
Returned == det_pc = "done"

Detected == Returned /\ position # None

\* pixel q of the full-size frame lies on an edge of the reported box
OnBoxEdge(q) ==
    \/ /\ q[1] \in {box.top, box.bottom}
       /\ box.left <= q[2] /\ q[2] <= box.right
    \/ /\ q[2] \in {box.left, box.right}
       /\ box.top <= q[1] /\ q[1] <= box.bottom

\* the worker's thread has ended (STOPPED)
Stopped(w) == pc[w] \in {"stopped", "crashed"}

\* s can be obtained from t by deleting elements
RECURSIVE IsSubseq(_, _)
IsSubseq(s, t) ==
    IF s = <<>> THEN TRUE
    ELSE IF t = <<>> THEN FALSE
    ELSE IF Head(s) = Head(t) THEN IsSubseq(Tail(s), Tail(t))
    ELSE IsSubseq(s, Tail(t))

----------------------------------------------------------------------------
\* C1: a push always leaves the newly captured frame at the tail of the
\* queue, also when the queue was full (the oldest entry is removed and the
\* new frame appended).  Stated right after the supervisor's queue operation,
\* while it still holds the lock.
C1_NewestAtTail ==
    pcMain = "unlock" =>
        /\ Len(frames) > 0
        /\ frames[Len(frames)] = freshest_frame

\* C2: the queue's length is between 0 and K in every reachable state.
C2_LengthInRange == Len(frames) \in 0..K

\* C2 witness: the supervisor has just filled the queue to K after workers
\* took frames from it.
C2_Witness ==
    /\ pcMain = "unlock"
    /\ Len(frames) = K
    /\ popped # <<>>

\* C3: no frame is delivered twice: the frames obtained by the workers'
\* get_nowait calls are pairwise different, and so are the frames two workers
\* hold at the same time.
C3_AtMostOnce ==
    /\ \A i, j \in 1..Len(popped) : i # j => popped[i] # popped[j]
    /\ \A v, w \in Workers :
          (v # w /\ incoming[v] # 0) => incoming[v] # incoming[w]

\* C3 witness: all three workers have taken a frame and two of them still
\* hold theirs.
C3_Witness ==
    /\ Len(popped) >= Cardinality(Workers)
    /\ \E v, w \in Workers : v # w /\ incoming[v] # 0 /\ incoming[w] # 0

\* C4: the acquisition loop never waits for the lock while the worker that
\* holds it is running dowork.
C4_PushNeverWaitsOnAnalysis ==
    ~ (/\ pcMain = "lock"
       /\ \E w \in Workers : lock = w /\ pc[w] = "dowork")

\* C5: a worker holding the lock is never running dowork or showing a frame.
C5_LockOnlyAroundQueueOp ==
    \A w \in Workers : lock = w => pc[w] \notin {"dowork", "show"}

\* C6: once the stop event is set, every worker's thread eventually ends.
C6_StopLeadsToStopped ==
    thread_stopper ~> (\A w \in Workers : Stopped(w))

\* C6 witness: the event is set and all workers have ended although frames
\* are still queued.
C6_Witness ==
    /\ thread_stopper
    /\ \A w \in Workers : Stopped(w)
    /\ frames # <<>>

\* C7: when the supervisor cell has finished (all joins returned), every
\* worker's thread has ended and no worker holds the lock.
C7_DoneImpliesAllStopped ==
    pcMain = "done" => \A w \in Workers : Stopped(w) /\ lock # w

\* C7 witness: the cell has finished after workers processed frames.
C7_Witness ==
    /\ pcMain = "done"
    /\ popped # <<>>

\* C8: when capture fails, the stop event is set.
C8_FailureSetsStop == pcMain = "failed" => thread_stopper

\* C9: no worker's thread is ended by an error raised in dowork.
C9_AnalysisErrorIsLocal == \A w \in Workers : pc[w] # "crashed"

\* C10: the frames obtained by the workers, in the order they were obtained,
\* form an order-preserving subsequence of the frames put on the queue.
C10_PoppedInCaptureOrder == IsSubseq(popped, pushed)

\* C10 witness: workers have taken several frames, and more than K frames
\* have been put.
C10_Witness ==
    /\ Len(popped) >= 2
    /\ Len(pushed) > K

\* C11: the stop event changes only in the supervisor's step from "set" to
\* "join", after the acquisition loop, from unset to set; it is therefore set
\* at most once, never while frames are acquired, never cleared and never by
\* a worker.
C11_StopSetOnceAfterLoop ==
    /\ [](thread_stopper => pcMain \in {"join", "done"})
    /\ [][thread_stopper' # thread_stopper =>
            /\ ~thread_stopper
            /\ thread_stopper'
            /\ pcMain = "set"
            /\ pcMain' = "join"
            /\ pc' = pc]_vars

\* C11 witness: the event is set, the loop has pushed frames and the
\* supervisor waits in its joins.
C11_Witness ==
    /\ thread_stopper
    /\ pcMain = "join"
    /\ pushed # <<>>

\* C15: a worker obtains at most one frame after the event is set; leaving
\* the loop condition it stops when the event is set and goes on otherwise;
\* and every iteration, also one after an empty queue, starts at the loop
\* condition.
C15_AtMostOneMoreIteration ==
    /\ [](\A w \in Workers : late_gets[w] <= 1)
    /\ [][\A w \in Workers :
            /\ (pc[w] = "check" /\ pc'[w] # "check") =>
                   pc'[w] = (IF thread_stopper THEN "stopped" ELSE "acquire")
            /\ (pc'[w] = "acquire" /\ pc[w] # "acquire") => pc[w] = "check"]_vars

\* C15 witness: a worker has obtained a frame after the event was set.
C15_Witness ==
    /\ thread_stopper
    /\ \E w \in Workers : late_gets[w] = 1

\* C16: a get_nowait on an empty queue releases the lock, leaves the queue
\* and the display untouched and takes the worker back to the loop
\* condition.
C16_EmptyPop ==
    [][\A w \in Workers :
         (pc[w] = "get" /\ Len(frames) = 0 /\ pc'[w] # "get") =>
             /\ lock' = "free"
             /\ pc'[w] = "check"
             /\ frames' = frames
             /\ shown' = shown]_vars

\* C16 witness: a worker holding the lock is about to call get_nowait on a
\* queue that earlier pops have emptied.
C16_Witness ==
    \E w \in Workers :
        /\ pc[w] = "get"
        /\ lock = w
        /\ frames = <<>>
        /\ popped # <<>>

\* C17: every frame a worker obtained is shown at most once, and exactly once
\* as soon as no worker holds it any more.
C17_PoppedShownOnce ==
    \A i \in 1..Len(popped) :
        /\ shown[popped[i]] <= 1
        /\ (\A w \in Workers : incoming[w] # popped[i]) => shown[popped[i]] = 1

\* C20: a thread is inside its critical section exactly when it owns the
\* lock, so at most one thread is, every queue access happens under the
\* lock, and no worker loops or stops while owning it.
C20_LockDiscipline ==
    /\ (lock = "main") <=> (pcMain \in MainInside)
    /\ \A w \in Workers : (lock = w) <=> (pc[w] \in WorkerInside)
    /\ Cardinality({w \in Workers : pc[w] \in WorkerInside})
         + (IF pcMain \in MainInside THEN 1 ELSE 0) <= 1

\* C20 witness: after a worker left through the exception path the
\* supervisor owns the lock and works on the queue.
C20_Witness ==
    /\ \E w \in Workers : pc[w] = "crashed"
    /\ lock = "main"
    /\ pcMain = "push"

\* C12: dowork returns None exactly when the mask of the selected cluster has
\* at most 336 (0.07 x 4800) pixels and a box exactly when it has more; an
\* empty mask returns None and raises nothing.
C12_AreaThreshold ==
    det_pc \in {"done", "IndexError"} =>
        LET count == Cardinality(Masked)
        IN  /\ Detected <=> count > 336
            /\ Returned /\ position = None <=> count <= 336
            /\ count = 0 => Returned /\ position = None

\* a mask one pixel over the threshold is detected
C12_Witness == Detected /\ Cardinality(Masked) = 337

\* C13: a reported box has 0 <= top <= bottom < 240 and
\* 0 <= left <= right < 320, and the border writes raise no IndexError.
C13_BoxInsideFrame ==
    /\ det_pc # "IndexError"
    /\ Detected =>
          /\ 0 <= box.top /\ box.top <= box.bottom /\ box.bottom < FrameH
          /\ 0 <= box.left /\ box.left <= box.right /\ box.right < FrameW
          /\ \A q \in output.painted :
                q[1] \in 0..(FrameH - 1) /\ q[2] \in 0..(FrameW - 1)

\* a mask that reaches the last row and the last column
C13_Witness ==
    /\ Detected
    /\ box.bottom = 236
    /\ box.right = 316
    /\ kmeans.labels_[NPixels - 1] = Selected

\* C14: for a frame that has the target colour throughout, the box is the
\* whole frame, (0, 236, 0, 316), and the centre is 118.
C14_UniformSpansFrame ==
    Returned /\ array.content.kind = "uniform" =>
        /\ box = [top |-> 0, bottom |-> 236, left |-> 0, right |-> 316]
        /\ position = 118

\* C18: dowork leaves its argument as it was; returning None, the output is
\* the input; returning a centre, the output differs from the input only on
\* the four edges of the box, which have the worker's border colour.
C18_OutputVersusInput ==
    /\ [][array' = array]_vars
    /\ [](Returned /\ position = None => output = array)
    /\ [](Detected =>
            /\ output.content = array.content
            /\ \A q \in output.painted : OnBoxEdge(q)
            /\ output.colour = border_color(det_worker))

\* a border has been drawn, around a box with an inside
C18_Witness ==
    /\ Detected
    /\ output.painted # {}
    /\ output # array
    /\ box.bottom > box.top + 4
    /\ box.right > box.left + 4

\* C19: top, bottom, left and right are four times the first and last row
\* and the first and last column that have a masked pixel, and the centre
\* is half of top + bottom.
C19_BoxFromMask ==
    Detected =>
        LET rows == MaskedRows
            cols == MaskedCols
        IN  /\ \E r \in rows : box.top = 4 * r
            /\ \A r \in rows : box.top <= 4 * r
            /\ \E r \in rows : box.bottom = 4 * r
            /\ \A r \in rows : box.bottom >= 4 * r
            /\ \E c \in cols : box.left = 4 * c
            /\ \A c \in cols : box.left <= 4 * c
            /\ \E c \in cols : box.right = 4 * c
            /\ \A c \in cols : box.right >= 4 * c
            /\ 2 * position = box.top + box.bottom

\* a box away from the top and the left of the frame
C19_Witness ==
    /\ Detected
    /\ box = [top |-> 208, bottom |-> 236, left |-> 128, right |-> 316]
    /\ position = 222

\* C21: at most one worker is inside dowork at a time, and no step taken
\* while a worker is inside dowork changes the queue.
C21_SerializedAnalysis ==
    /\ [](Cardinality({w \in Workers : pc[w] = "dowork"}) <= 1)
    /\ [][(\E w \in Workers : pc[w] = "dowork") => frames' = frames]_vars

\* C21 witness: a worker is inside dowork with frames still queued while
\* another worker and the supervisor both wait for the lock.
C21_Witness ==
    /\ \E w \in Workers : pc[w] = "dowork"
    /\ \E w \in Workers : pc[w] = "acquire"
    /\ pcMain = "lock"
    /\ frames # <<>>

\* C22: the supervisor is at its blocking frames.get() only with a full
\* (hence non-empty) queue and at its blocking frames.put() only with a queue
\* that is not full, owning the lock from the fullness test to the call, so
\* neither call waits.
C22_BlockingCallsNeverWait ==
    /\ pcMain \in {"push", "get", "put"} => lock = "main"
    /\ pcMain = "get" => Len(frames) = K /\ Len(frames) > 0
    /\ pcMain = "put" => Len(frames) < K

\* C22 witness: the supervisor is about to call frames.get() on the full
\* queue while a worker waits for the lock.
C22_Witness ==
    /\ pcMain = "get"
    /\ Len(frames) = K
    /\ \E w \in Workers : pc[w] = "acquire"

\* C23 as stated: unfinished_tasks is never negative; absent analysis errors
\* it is the queue length plus the number of workers inside dowork; once
\* all workers have stopped it is the queue length.
C23_TaskAccounting_AsStated ==
    /\ unfinished_tasks >= 0
    /\ (\A w \in Workers : pc[w] # "crashed") =>
          unfinished_tasks =
              Len(frames) + Cardinality({w \in Workers : pc[w] = "dowork"})
    /\ (\A w \in Workers : pc[w] = "stopped") =>
          unfinished_tasks = Len(frames)

\* C23, amended: unfinished_tasks is never negative; it is the queue length
\* plus the number of frames taken off the queue for which task_done has not
\* been called: by a worker inside dowork or between dowork and task_done,
\* by a worker whose dowork raised, or by the supervisor between frames.get()
\* and frames.task_done().  Once all workers have left their loop without an
\* analysis error it is the queue length.
C23_TaskAccounting ==
    /\ unfinished_tasks >= 0
    /\ unfinished_tasks =
          Len(frames)
          + Cardinality({w \in Workers :
                            pc[w] \in {"dowork", "task_done", "crashed"}})
          + (IF pcMain = "task_done" THEN 1 ELSE 0)
    /\ (\A w \in Workers : pc[w] = "stopped") =>
          unfinished_tasks = Len(frames)

\* C23 witness: all workers have left their loop, frames were popped and
\* frames remain in the queue.
C23_Witness ==
    /\ \A w \in Workers : pc[w] = "stopped"
    /\ pcMain = "done"
    /\ popped # <<>>
    /\ frames # <<>>
    /\ unfinished_tasks = Len(frames)

============================================================================
